---- MODULE Spec2Model ----
(***************************************************************************)
(* The DoorDash mock of gateway-mocks (src/doordash/app.py): the in-memory *)
(* delivery store, the per-delivery progress simulation and the MCP tools  *)
(* that create, read, cancel and list deliveries.                          *)
(*                                                                         *)
(* Python objects are modelled by a heap: `heap` is the sequence of every  *)
(* Delivery object constructed so far, and a reference is an index into    *)
(* it.  `deliveries` (AppState.deliveries) maps an identifier to such a    *)
(* reference; a running simulate_delivery_progress coroutine keeps the     *)
(* reference it fetched in its local variable `delivery`.                  *)
(*                                                                         *)
(* An Optional value is a sequence of length at most one: None is << >>    *)
(* and a present value x is <<x>>.                                         *)
(***************************************************************************)
EXTENDS Integers, Sequences, FiniteSets, TLC

\* ---------------------------------------------------------------- bounds

\* Number of create_delivery calls in a run.
MaxDeliveries == 2

\* ------------------------------------------------------------- constants

None == << >>
Some(x) == <<x>>

\* class DeliveryStatus
CREATED == "CREATED"
CONFIRMED == "CONFIRMED"
DASHER_ASSIGNED == "DASHER_ASSIGNED"
PICKUP_IN_PROGRESS == "PICKUP_IN_PROGRESS"
ENROUTE_TO_DROPOFF == "ENROUTE_TO_DROPOFF"
DELIVERED == "DELIVERED"
CANCELED == "CANCELED"

DeliveryStatus ==
    {CREATED, CONFIRMED, DASHER_ASSIGNED, PICKUP_IN_PROGRESS,
     ENROUTE_TO_DROPOFF, DELIVERED, CANCELED}

\* class Dasher; rating is kept in hundredths (4.8 is 480).
Dasher(id, name, rating, vehicle_type, phone_number) ==
    [id |-> id, name |-> name, rating |-> rating,
     vehicle_type |-> vehicle_type, phone_number |-> phone_number]

\* The list AppState.generate_sample_dashers assigns to self.dashers.
SampleDashers ==
    << Dasher("D1001", "Alex Johnson", 480, "car", "+16505551234"),
       Dasher("D1002", "Maya Rodriguez", 490, "bicycle", "+16505552345"),
       Dasher("D1003", "Jamal Williams", 470, "car", "+16505553456"),
       Dasher("D1004", "Sarah Chen", 495, "scooter", "+16505554567"),
       Dasher("D1005", "Carlos Mendez", 480, "car", "+16505555678") >>

\* class Location
Location(address, business_name, phone_number, instructions) ==
    [address |-> address, business_name |-> business_name,
     phone_number |-> phone_number, instructions |-> instructions]

\* random.randint(25, 45): the two ends of the range stand for the range.
RandLo == 25
RandHi == 45
EtaMinutes == {RandLo, RandHi}

\* order_value: int = 1999
DefaultOrderValue == 1999

\* ------------------------------------------------------- input alphabets

\* external_delivery_id as the caller passes it: absent, empty or explicit.
ExternalIds == {None, Some(""), Some("order-1")}

\* Values of f"D-{str(uuid.uuid4())[:8]}".
GeneratedIds == {"D-0000000a"}

\* Identifiers a read or a cancel may be called with.
QueryIds == {"order-1", "D-0000000a", "missing"}

PickupAddresses == {"100 Main St"}
DropoffAddresses == {"200 Oak Ave"}
OrderValues == {DefaultOrderValue}

\* ------------------------------------------------------------------ state

VARIABLES
    heap,          \* every Delivery object constructed, by reference
    deliveries,    \* AppState.deliveries: identifier -> reference
    dashers,       \* AppState.dashers
    engines,       \* the simulate_delivery_progress tasks created so far
    tasks,         \* app_lifespan's local list `tasks` (indexes into engines)
    lifespan,      \* "running" inside app_lifespan's yield, "exited" after it
    ret,           \* what the step just taken returned to a caller, if anything
                   \* (out is the dict the tool hands to json.dumps)
    canceled,      \* references of the records a cancel_delivery call has canceled
    weather        \* src/weather/app.py: the main thread of the weather service

vars == <<heap, deliveries, dashers, engines, tasks, lifespan, ret, canceled, weather>>

\* datetime.now(): a logical clock that ticks once per Delivery constructed.
Now == Len(heap) + 1

\* Delivery(external_delivery_id=..., pickup=..., dropoff=..., order_value=...)
Delivery(external_delivery_id, pickup, dropoff, order_value) ==
    [external_delivery_id |-> external_delivery_id,
     pickup |-> pickup,
     dropoff |-> dropoff,
     order_value |-> order_value,
     status |-> CREATED,
     created_at |-> Now,
     estimated_delivery_time |-> None,
     dasher |-> None,
     tracking_url |-> None]

\* Delivery.to_dict: the three optional keys are present only when set.  A
\* datetime's isoformat() is kept as the instant it renders.
to_dict(self) ==
    LET result ==
            [external_delivery_id |-> self.external_delivery_id,
             status |-> self.status,
             created_at |-> self.created_at,
             pickup |-> self.pickup,
             dropoff |-> self.dropoff,
             order_value |-> self.order_value]
        r1 == IF self.estimated_delivery_time # None
              THEN result @@
                   ("estimated_delivery_time" :> self.estimated_delivery_time[1])
              ELSE result
        r2 == IF self.dasher # None
              THEN r1 @@ ("dasher" :> self.dasher[1])
              ELSE r1
        r3 == IF self.tracking_url # None
              THEN r2 @@ ("tracking_url" :> self.tracking_url[1])
              ELSE r2
    IN  r3

\* generate_tracking_url: the f-string, kept as its two parts (never empty).
generate_tracking_url(delivery_id) ==
    <<"https://doordash.com/tracking/", delivery_id>>

\* app_state.deliveries.get(delivery_id): a reference, or None.
Get(delivery_id) ==
    IF delivery_id \in DOMAIN deliveries THEN Some(deliveries[delivery_id]) ELSE None

\* A step that is no tool call returns nothing to any caller.
NoReturn == [op |-> "none"]

\* The state after app_lifespan has built AppState and seeded the dashers.
Init ==
    /\ heap = << >>
    /\ deliveries = << >>
    /\ dashers = SampleDashers
    /\ engines = << >>
    /\ tasks = << >>
    /\ lifespan = "running"
    /\ ret = NoReturn
    /\ canceled = {}
    /\ weather = [pc |-> "register_service", service_id |-> None,
                  heartbeat_worker |-> "not called", app |-> "not run",
                  sent |-> 0, failed |-> 0, slept |-> 0]

\* ------------------------------------------------------------ the tools

\* The task list without the new task: the create_task call left out.
create_task_dropped(running, delivery_id) == running

\* asyncio.create_task(simulate_delivery_progress(external_delivery_id, ctx)):
\* a new task that has not run yet.
create_task(running, delivery_id) ==
    Append(running, [delivery_id |-> delivery_id, pc |-> "start", delivery |-> None,
                   last |-> None])

\* A dict rebuilt around the one new entry, the entries it held forgotten.
setitem_forgetting(dict, key, value) == [k \in {key} |-> value]

\* dict[key] = value: the key is added, or its value replaced.
setitem(dict, key, value) ==
    [k \in DOMAIN dict \cup {key} |-> IF k = key THEN value ELSE dict[k]]

\* create_delivery: no await in its body, so it runs as one step.  The task
\* made by asyncio.create_task has not run when the call returns.
create_delivery(external_delivery_id, pickup_address, dropoff_address, order_value) ==
    /\ Len(heap) < MaxDeliveries
    /\ \E id \in (IF external_delivery_id = None \/ external_delivery_id = Some("")
                   THEN GeneratedIds
                   ELSE {external_delivery_id[1]}) :
        LET pickup == Location(pickup_address, None, None, None)
            dropoff == Location(dropoff_address, None, None, None)
            delivery == Delivery(id, pickup, dropoff, order_value)
            ref == Len(heap) + 1
        IN  /\ heap' = Append(heap, delivery)
            /\ deliveries' = setitem(deliveries, id, ref)
            /\ engines' = create_task(engines, id)
            /\ ret' = [op |-> "create_delivery", arg |-> external_delivery_id,
                       out |-> to_dict(delivery)]
    /\ UNCHANGED <<dashers, tasks, weather, lifespan, canceled>>

\* deliveries[delivery_id] in place of .get: the KeyError reaches the caller.
RaisesKeyError(delivery_id) ==
    [raised |-> "KeyError", delivery_id |-> delivery_id]

\* {"error": "Delivery not found", "delivery_id": delivery_id}
NotFound(delivery_id) ==
    [error |-> "Delivery not found", delivery_id |-> delivery_id]

\* get_delivery_status
get_delivery_status(delivery_id) ==
    LET delivery == Get(delivery_id)
    IN  /\ ret' = [op |-> "get_delivery_status", arg |-> Some(delivery_id),
                   out |-> IF delivery = None
                           THEN NotFound(delivery_id)
                           ELSE to_dict(heap[delivery[1]])]
        /\ UNCHANGED <<heap, deliveries, dashers, engines, tasks, weather, lifespan, canceled>>

\* The list with ENROUTE_TO_DROPOFF left out.
non_cancellable_without_enroute == {DELIVERED, CANCELED}

\* The list with PICKUP_IN_PROGRESS added.
non_cancellable_with_pickup ==
    {DELIVERED, CANCELED, ENROUTE_TO_DROPOFF, PICKUP_IN_PROGRESS}

non_cancellable_statuses == {DELIVERED, CANCELED, ENROUTE_TO_DROPOFF}

\* cancel_delivery: no await in its body, so check and write are one step.
cancel_delivery(delivery_id) ==
    LET delivery == Get(delivery_id)
    IN  IF delivery = None
        THEN /\ ret' = [op |-> "cancel_delivery", arg |-> Some(delivery_id),
                        out |-> NotFound(delivery_id)]
             /\ UNCHANGED <<heap, deliveries, dashers, engines, tasks, weather, lifespan, canceled>>
        ELSE IF heap[delivery[1]].status \in non_cancellable_statuses
        THEN /\ ret' = [op |-> "cancel_delivery", arg |-> Some(delivery_id),
                        out |-> [error |-> "Cannot cancel delivery",
                                 status |-> heap[delivery[1]].status,
                                 reason |-> "Delivery is already in progress, completed, or canceled"]]
             /\ UNCHANGED <<heap, deliveries, dashers, engines, tasks, weather, lifespan, canceled>>
        ELSE /\ heap' = [heap EXCEPT ![delivery[1]].status = CANCELED]
             /\ ret' = [op |-> "cancel_delivery", arg |-> Some(delivery_id),
                        out |-> [success |-> TRUE,
                                 message |-> "Delivery canceled successfully",
                                 delivery |-> to_dict(heap'[delivery[1]])]]
             /\ canceled' = canceled \cup {delivery[1]}
             /\ UNCHANGED <<deliveries, dashers, engines, tasks, weather, lifespan>>

\* The comprehension with the CANCELED test left out.
active_deliveries_with_canceled ==
    LET keys == {delivery_id \in DOMAIN deliveries :
                    heap[deliveries[delivery_id]].status # DELIVERED}
    IN  [delivery_id \in keys |-> to_dict(heap[deliveries[delivery_id]])]

\* The dict comprehension of list_active_deliveries.
active_deliveries ==
    LET keys == {delivery_id \in DOMAIN deliveries :
                    /\ heap[deliveries[delivery_id]].status # DELIVERED
                    /\ heap[deliveries[delivery_id]].status # CANCELED}
    IN  [delivery_id \in keys |-> to_dict(heap[deliveries[delivery_id]])]

\* list_active_deliveries
list_active_deliveries ==
    /\ ret' = [op |-> "list_active_deliveries", arg |-> None,
               out |-> [count |-> Cardinality(DOMAIN active_deliveries),
                        deliveries |-> active_deliveries]]
    /\ UNCHANGED <<heap, deliveries, dashers, engines, tasks, weather, lifespan, canceled>>

\* --------------------------------------------- simulate_delivery_progress

\* The pool seeded again on every pick, whether it is empty or not.
get_random_dasher_pool_reseeded == dashers \o SampleDashers

\* AppState.get_random_dasher: the list it picks from, seeded when empty.
get_random_dasher_pool ==
    IF dashers = << >> THEN SampleDashers ELSE dashers

\* random.choice(seq): the first and the last index stand for all of them.
RandomChoices(seq) == {1, Len(seq)}

\* Where a task resumes: "start" before its first run, then the asyncio.sleep
\* it is suspended in, named by the status written after it.
NextPc(pc) ==
    CASE pc = CONFIRMED -> DASHER_ASSIGNED
      [] pc = DASHER_ASSIGNED -> PICKUP_IN_PROGRESS
      [] pc = PICKUP_IN_PROGRESS -> ENROUTE_TO_DROPOFF
      [] pc = ENROUTE_TO_DROPOFF -> DELIVERED
      [] pc = DELIVERED -> "done"

\* An exception of one task taken as the end of every task.
AfterInfo_ends_every_task(e, info_ok) ==
    IF info_ok
    THEN [engines EXCEPT ![e].pc = NextPc(engines[e].pc),
                         ![e].last = Some(engines[e].pc)]
    ELSE [x \in DOMAIN engines |->
             IF x = e
             THEN [engines[x] EXCEPT !.pc = "failed", !.last = Some(engines[e].pc)]
             ELSE [engines[x] EXCEPT !.pc = "failed"]]

\* await ctx.info(...) after a write: the task goes on to its next sleep, or
\* the exception ctx.info raised ends the task.  `last` keeps the status the
\* task has just written.
AfterInfo(e, info_ok) ==
    [engines EXCEPT ![e].pc = IF info_ok THEN NextPc(engines[e].pc) ELSE "failed",
                    ![e].last = Some(engines[e].pc)]

\* The task going on to its first sleep whether or not it found a record.
FirstPc_without_check(delivery) == CONFIRMED

\* `if not delivery: return`, else on to asyncio.sleep(2).
FirstPc(delivery) == IF delivery = None THEN "returned" ELSE CONFIRMED

\* First run of the task: fetch the record, return if there is none, else
\* suspend in asyncio.sleep(2).
simulate_start(e) ==
    /\ engines[e].pc = "start"
    /\ LET delivery == Get(engines[e].delivery_id)
       IN  engines' = [engines EXCEPT
                          ![e].delivery = delivery,
                          ![e].pc = FirstPc(delivery)]
    /\ ret' = NoReturn
    /\ UNCHANGED <<heap, deliveries, dashers, tasks, weather, lifespan, canceled>>

\* "Update to confirmed"
simulate_confirmed(e, info_ok) ==
    /\ engines[e].pc = CONFIRMED
    /\ heap' = [heap EXCEPT ![engines[e].delivery[1]].status = CONFIRMED]
    /\ engines' = AfterInfo(e, info_ok)
    /\ ret' = NoReturn
    /\ UNCHANGED <<deliveries, dashers, tasks, weather, lifespan, canceled>>

\* The assignment with the write of delivery.dasher left out.
assign_without_dasher(delivery, dasher, delivery_id, eta) ==
    [delivery EXCEPT
        !.status = DASHER_ASSIGNED,
        !.tracking_url = Some(generate_tracking_url(delivery_id)),
        !.estimated_delivery_time = Some(eta)]

\* The four writes of "Assign dasher" to the record.
assign_dasher(delivery, dasher, delivery_id, eta) ==
    [delivery EXCEPT
        !.dasher = Some(dasher),
        !.status = DASHER_ASSIGNED,
        !.tracking_url = Some(generate_tracking_url(delivery_id)),
        !.estimated_delivery_time = Some(eta)]

\* "Assign dasher": the four writes happen with no await between them.
simulate_dasher_assigned(e, info_ok) ==
    /\ engines[e].pc = DASHER_ASSIGNED
    /\ dashers' = get_random_dasher_pool
    /\ \E i \in RandomChoices(dashers'), minutes \in EtaMinutes :
         heap' = [heap EXCEPT ![engines[e].delivery[1]] =
                     assign_dasher(@, dashers'[i], engines[e].delivery_id,
                                   Now + minutes)]
    /\ engines' = AfterInfo(e, info_ok)
    /\ ret' = NoReturn
    /\ UNCHANGED <<deliveries, tasks, weather, lifespan, canceled>>

\* "Pickup in progress"
simulate_pickup_in_progress(e, info_ok) ==
    /\ engines[e].pc = PICKUP_IN_PROGRESS
    /\ heap' = [heap EXCEPT ![engines[e].delivery[1]].status = PICKUP_IN_PROGRESS]
    /\ engines' = AfterInfo(e, info_ok)
    /\ ret' = NoReturn
    /\ UNCHANGED <<deliveries, dashers, tasks, weather, lifespan, canceled>>

\* "Enroute to dropoff"
simulate_enroute_to_dropoff(e, info_ok) ==
    /\ engines[e].pc = ENROUTE_TO_DROPOFF
    /\ heap' = [heap EXCEPT ![engines[e].delivery[1]].status = ENROUTE_TO_DROPOFF]
    /\ engines' = AfterInfo(e, info_ok)
    /\ ret' = NoReturn
    /\ UNCHANGED <<deliveries, dashers, tasks, weather, lifespan, canceled>>

\* "Delivered"
simulate_delivered(e, info_ok) ==
    /\ engines[e].pc = DELIVERED
    /\ heap' = [heap EXCEPT ![engines[e].delivery[1]].status = DELIVERED]
    /\ engines' = AfterInfo(e, info_ok)
    /\ ret' = NoReturn
    /\ UNCHANGED <<deliveries, dashers, tasks, weather, lifespan, canceled>>

\* One scheduling step of a simulate_delivery_progress task; info_results
\* holds the outcomes of await ctx.info(...) that are explored (TRUE: it
\* returned, FALSE: it raised).
simulate_delivery_progress(e, info_results) ==
    \/ simulate_start(e)
    \/ \E info_ok \in info_results :
        \/ simulate_confirmed(e, info_ok)
        \/ simulate_dasher_assigned(e, info_ok)
        \/ simulate_pickup_in_progress(e, info_ok)
        \/ simulate_enroute_to_dropoff(e, info_ok)
        \/ simulate_delivered(e, info_ok)

\* ---------------------------------------------------------- specification

CreateDelivery ==
    \E external_delivery_id \in ExternalIds, pickup_address \in PickupAddresses,
       dropoff_address \in DropoffAddresses, order_value \in OrderValues :
        create_delivery(external_delivery_id, pickup_address, dropoff_address,
                        order_value)

GetDeliveryStatus == \E delivery_id \in QueryIds : get_delivery_status(delivery_id)

CancelDelivery == \E delivery_id \in QueryIds : cancel_delivery(delivery_id)

ListActiveDeliveries == list_active_deliveries

\* Every notification is delivered.  A task that ctx.info ends early has
\* written exactly what a task that is not scheduled again has written.
SimulateDeliveryProgress ==
    \E e \in 1..Len(engines) : simulate_delivery_progress(e, {TRUE})

Next ==
    \/ CreateDelivery
    \/ GetDeliveryStatus
    \/ CancelDelivery
    \/ ListActiveDeliveries
    \/ SimulateDeliveryProgress

Spec == Init /\ [][Next]_vars

\* The finally block of app_lifespan: task.cancel() for each task in the local
\* list `tasks`, then the gather of that list.  A cancelled task never runs
\* again.
app_lifespan_exit ==
    /\ lifespan = "running"
    /\ engines' = [e \in DOMAIN engines |->
                      IF \E i \in DOMAIN tasks : tasks[i] = e
                      THEN [engines[e] EXCEPT !.pc = "cancelled"]
                      ELSE engines[e]]
    /\ lifespan' = "exited"
    /\ ret' = NoReturn
    /\ UNCHANGED <<heap, deliveries, dashers, tasks, weather, canceled>>

\* The server answers tool calls while app_lifespan is suspended in its yield.
ServeCreateDelivery == lifespan = "running" /\ CreateDelivery

ServeCancelDelivery == lifespan = "running" /\ CancelDelivery

\* The event loop goes on resuming the tasks nothing has cancelled.
LifespanNext ==
    \/ ServeCreateDelivery
    \/ ServeCancelDelivery
    \/ SimulateDeliveryProgress
    \/ app_lifespan_exit

SpecLifespan == Init /\ [][LifespanNext]_vars

\* ------------------------------------------------------------ the resources

\* The dict of an AppState other than the one the tools are handed: empty.
app_state_global_deliveries_of_another == << >>

\* _app_state.deliveries: app_lifespan sets the global _app_state to the
\* AppState it then yields as the lifespan context, once per run of the server.
app_state_global_deliveries == deliveries

\* delivery_resource
delivery_resource(delivery_id) ==
    LET delivery == IF delivery_id \in DOMAIN app_state_global_deliveries
                    THEN Some(app_state_global_deliveries[delivery_id])
                    ELSE None
    IN  /\ ret' = [op |-> "delivery_resource", arg |-> Some(delivery_id),
                   out |-> IF delivery = None
                           THEN NotFound(delivery_id)
                           ELSE to_dict(heap[delivery[1]])]
        /\ UNCHANGED <<heap, deliveries, dashers, engines, tasks, weather, lifespan, canceled>>

\* The dict comprehension of active_deliveries_resource.
resource_active_deliveries ==
    LET keys == {delivery_id \in DOMAIN app_state_global_deliveries :
                    /\ heap[app_state_global_deliveries[delivery_id]].status # DELIVERED
                    /\ heap[app_state_global_deliveries[delivery_id]].status # CANCELED}
    IN  [delivery_id \in keys |->
            to_dict(heap[app_state_global_deliveries[delivery_id]])]

\* active_deliveries_resource
active_deliveries_resource ==
    /\ ret' = [op |-> "active_deliveries_resource", arg |-> None,
               out |-> [count |-> Cardinality(DOMAIN resource_active_deliveries),
                        deliveries |-> resource_active_deliveries]]
    /\ UNCHANGED <<heap, deliveries, dashers, engines, tasks, weather, lifespan, canceled>>

DeliveryResource == \E delivery_id \in QueryIds : delivery_resource(delivery_id)

ActiveDeliveriesResource == active_deliveries_resource

ResourcesNext ==
    \/ CreateDelivery
    \/ GetDeliveryStatus
    \/ CancelDelivery
    \/ ListActiveDeliveries
    \/ SimulateDeliveryProgress
    \/ DeliveryResource
    \/ ActiveDeliveriesResource

SpecResources == Init /\ [][ResourcesNext]_vars

\* ------------------------------------------------------ src/weather/app.py

HEARTBEAT_INTERVAL == 15

\* Seconds of time.sleep followed.
MaxUptime == 90

\* response_data.get("id"): what a registry may hand out, 0 among them.
ServiceIds == {0, 1, 2}

\* `if service_id:` and `if not service_id:`
Truthy(service_id) == service_id # None /\ service_id[1] # 0

\* register_service: the id of a 201 response, or None for any other status
\* and for an exception; then the `if service_id:` of __main__.
register_service ==
    /\ weather.pc = "register_service"
    /\ \E service_id \in {None} \cup {Some(id) : id \in ServiceIds} :
         weather' = [weather EXCEPT
                        !.service_id = service_id,
                        !.pc = IF Truthy(service_id)
                               THEN "start_heartbeat_thread" ELSE "app.run"]
    /\ UNCHANGED <<heap, deliveries, dashers, engines, tasks, lifespan, ret, canceled>>

\* start_heartbeat_thread: threading.Thread(target=heartbeat_worker(service_id))
\* evaluates its argument first, a call of heartbeat_worker in the calling
\* thread; thread.daemon, thread.start() and the return to __main__ come after
\* that call returns.
start_heartbeat_thread ==
    /\ weather.pc = "start_heartbeat_thread"
    /\ weather' = [weather EXCEPT !.heartbeat_worker = "MainThread",
                                  !.pc = "heartbeat_worker: send_heartbeat"]
    /\ UNCHANGED <<heap, deliveries, dashers, engines, tasks, lifespan, ret, canceled>>

\* heartbeat_worker, first half of the loop body: send_heartbeat logs success
\* or failure and raises nothing.
heartbeat_worker_send ==
    /\ weather.pc = "heartbeat_worker: send_heartbeat"
    /\ \E ok \in BOOLEAN :
         weather' = [weather EXCEPT
                        !.sent = IF ok THEN @ + 1 ELSE @,
                        !.failed = IF ok THEN @ ELSE @ + 1,
                        !.pc = "heartbeat_worker: sleep"]
    /\ UNCHANGED <<heap, deliveries, dashers, engines, tasks, lifespan, ret, canceled>>

\* heartbeat_worker, second half: time.sleep(HEARTBEAT_INTERVAL), then round
\* the `while True`.
heartbeat_worker_sleep ==
    /\ weather.pc = "heartbeat_worker: sleep"
    /\ weather.slept < MaxUptime
    /\ weather' = [weather EXCEPT !.slept = @ + HEARTBEAT_INTERVAL,
                                  !.pc = "heartbeat_worker: send_heartbeat"]
    /\ UNCHANGED <<heap, deliveries, dashers, engines, tasks, lifespan, ret, canceled>>

\* app.run(host="0.0.0.0", port=port): the HTTP app serves.
app_run ==
    /\ weather.pc = "app.run"
    /\ weather' = [weather EXCEPT !.app = "serving", !.pc = "serving"]
    /\ UNCHANGED <<heap, deliveries, dashers, engines, tasks, lifespan, ret, canceled>>

WeatherNext ==
    \/ register_service
    \/ start_heartbeat_thread
    \/ heartbeat_worker_send
    \/ heartbeat_worker_sleep
    \/ app_run

SpecWeather == Init /\ [][WeatherNext]_vars

\* simulate_delivery_progress(delivery_id, ctx) called for any identifier, as
\* a task of its own: create_delivery is its only caller in the program and
\* stores the record first, so a task that finds no record is reached by this
\* direct call only.  Every Delivery constructed has its task, so the tasks
\* beyond Len(heap) are the direct calls: at most MaxTasks of them.
MaxTasks == 1

start_simulate_delivery_progress(delivery_id) ==
    /\ Len(engines) < Len(heap) + MaxTasks
    /\ engines' = create_task(engines, delivery_id)
    /\ ret' = NoReturn
    /\ UNCHANGED <<heap, deliveries, dashers, tasks, weather, lifespan, canceled>>

StartSimulateDeliveryProgress ==
    \E delivery_id \in QueryIds : start_simulate_delivery_progress(delivery_id)

DirectCallNext ==
    \/ CreateDelivery
    \/ StartSimulateDeliveryProgress
    \/ SimulateDeliveryProgress

SpecDirectCall == Init /\ [][DirectCallNext]_vars

\* The identifier whose tasks have their await ctx.info(...) raise or return;
\* the notifications of every other identifier's tasks are delivered.
FailingId == "order-1"

InfoResults(delivery_id) == IF delivery_id = FailingId THEN BOOLEAN ELSE {TRUE}

\* One scheduling step of the e-th task created, if it has been created.
RunTask(e) ==
    /\ e \in 1..Len(engines)
    /\ simulate_delivery_progress(e, InfoResults(engines[e].delivery_id))

RunSomeTask == \E e \in 1..MaxDeliveries : RunTask(e)

IsolationNext ==
    \/ CreateDelivery
    \/ CancelDelivery
    \/ RunSomeTask

\* The event loop resumes every task whose asyncio.sleep has expired: no task
\* that can run is left waiting for ever.
SpecIsolation ==
    /\ Init
    /\ [][IsolationNext]_vars
    /\ \A e \in 1..MaxDeliveries : WF_vars(RunTask(e))

\* ------------------------------------------------------------------ claims

Refs == 1..Len(heap)

\* Position of a status in the chain CREATED .. DELIVERED.
Rank(status) ==
    CASE status = CREATED -> 0
      [] status = CONFIRMED -> 1
      [] status = DASHER_ASSIGNED -> 2
      [] status = PICKUP_IN_PROGRESS -> 3
      [] status = ENROUTE_TO_DROPOFF -> 4
      [] status = DELIVERED -> 5
      [] status = CANCELED -> 6

IsError(out) == "error" \in DOMAIN out

IsRefusal(out) == IsError(out) /\ out.error = "Cannot cancel delivery"

IsSuccess(out) == "success" \in DOMAIN out /\ out.success = TRUE

\* C1: every change of a delivery's status moves it to a later status of the
\* chain CREATED .. DELIVERED or to CANCELED, and CANCELED is never left.
C1_StatusNeverRegresses ==
    [][\A r \in Refs :
          heap'[r].status # heap[r].status =>
              /\ heap[r].status # CANCELED
              /\ \/ heap'[r].status = CANCELED
                 \/ Rank(heap[r].status) < Rank(heap'[r].status)]_vars

\* C2: a delivery whose status is DELIVERED or CANCELED keeps that status in
\* every later step, whichever task or tool takes the step.
C2_TerminalAbsorbing ==
    [][\A r \in Refs :
          heap[r].status \in {DELIVERED, CANCELED} =>
              heap'[r].status = heap[r].status]_vars

\* C3: cancel_delivery on a stored delivery that is DELIVERED, CANCELED or
\* ENROUTE_TO_DROPOFF returns the "Cannot cancel delivery" error and leaves
\* every record and the store as they were.
C3_RefusedCancelChangesNothing ==
    [][\A delivery_id \in QueryIds :
          ( /\ delivery_id \in DOMAIN deliveries
            /\ heap[deliveries[delivery_id]].status
                   \in {DELIVERED, CANCELED, ENROUTE_TO_DROPOFF}
            /\ cancel_delivery(delivery_id) )
          => /\ IsRefusal(ret'.out)
             /\ ret'.out.status = heap[deliveries[delivery_id]].status
             /\ heap' = heap
             /\ deliveries' = deliveries
             /\ engines' = engines]_vars

\* C3 witness: a cancel of a delivery that is en route has just been refused.
C3_Witness ==
    /\ ret.op = "cancel_delivery"
    /\ IsRefusal(ret.out)
    /\ ret.out.status = ENROUTE_TO_DROPOFF
    /\ heap[deliveries[ret.arg[1]]].status = ENROUTE_TO_DROPOFF

\* C4: cancel_delivery on a stored delivery that is CREATED, CONFIRMED,
\* DASHER_ASSIGNED or PICKUP_IN_PROGRESS sets its status to CANCELED in that
\* one step, changes nothing else, and returns the record as CANCELED.
C4_CancelSetsOnlyStatus ==
    [][\A delivery_id \in QueryIds :
          ( /\ delivery_id \in DOMAIN deliveries
            /\ heap[deliveries[delivery_id]].status
                   \in {CREATED, CONFIRMED, DASHER_ASSIGNED, PICKUP_IN_PROGRESS}
            /\ cancel_delivery(delivery_id) )
          => LET r == deliveries[delivery_id]
             IN  /\ heap' = [heap EXCEPT ![r].status = CANCELED]
                 /\ deliveries' = deliveries
                 /\ engines' = engines
                 /\ dashers' = dashers
                 /\ IsSuccess(ret'.out)
                 /\ ret'.out.delivery.status = CANCELED
                 /\ ret'.out.delivery = to_dict([heap[r] EXCEPT !.status = CANCELED])]_vars

\* C4 witness: a delivery that already had its dasher has just been canceled.
C4_Witness ==
    /\ ret.op = "cancel_delivery"
    /\ IsSuccess(ret.out)
    /\ ret.out.delivery.status = CANCELED
    /\ "dasher" \in DOMAIN ret.out.delivery
    /\ heap[deliveries[ret.arg[1]]].status = CANCELED

\* C5: once a cancel_delivery call on a delivery has succeeded, every later
\* cancel_delivery call on the same delivery is refused.
C5_AtMostOneCancelSucceeds ==
    [][\A delivery_id \in QueryIds :
          ( /\ delivery_id \in DOMAIN deliveries
            /\ deliveries[delivery_id] \in canceled
            /\ cancel_delivery(delivery_id) )
          => IsRefusal(ret'.out)]_vars

\* C6: create_delivery with an explicit identifier that is already stored
\* returns an error and leaves the stored record, the store and the tasks
\* as they were.
C6_DuplicateCreateRefused ==
    [][\A external_delivery_id \in ExternalIds, pickup_address \in PickupAddresses,
          dropoff_address \in DropoffAddresses, order_value \in OrderValues :
          ( /\ external_delivery_id # None
            /\ external_delivery_id # Some("")
            /\ external_delivery_id[1] \in DOMAIN deliveries
            /\ create_delivery(external_delivery_id, pickup_address,
                               dropoff_address, order_value) )
          => /\ IsError(ret'.out)
             /\ deliveries' = deliveries
             /\ heap' = heap
             /\ engines' = engines]_vars

StatusesWithCourier ==
    {DASHER_ASSIGNED, PICKUP_IN_PROGRESS, ENROUTE_TO_DROPOFF, DELIVERED}

\* C7 as claimed: a stored delivery has a dasher exactly when its status is
\* DASHER_ASSIGNED, PICKUP_IN_PROGRESS, ENROUTE_TO_DROPOFF or DELIVERED.
C7_CourierIffStatus ==
    \A delivery_id \in DOMAIN deliveries :
        heap[deliveries[delivery_id]].dasher # None
            <=> heap[deliveries[delivery_id]].status \in StatusesWithCourier

\* C7 as amended: a delivery whose status is DASHER_ASSIGNED,
\* PICKUP_IN_PROGRESS, ENROUTE_TO_DROPOFF or DELIVERED has a dasher, which
\* to_dict shows.
C7_StatusImpliesCourier ==
    \A r \in Refs :
        heap[r].status \in StatusesWithCourier =>
            /\ heap[r].dasher # None
            /\ "dasher" \in DOMAIN to_dict(heap[r])

\* C7 witness: a delivery that was canceled has since been given a dasher and
\* moved on to PICKUP_IN_PROGRESS by its task.
C7_Witness ==
    \E delivery_id \in DOMAIN deliveries :
        /\ deliveries[delivery_id] \in canceled
        /\ heap[deliveries[delivery_id]].status = PICKUP_IN_PROGRESS
        /\ heap[deliveries[delivery_id]].dasher # None

\* What get_delivery_status(delivery_id) shows of the two fields.
Shown(record, key) ==
    IF key \in DOMAIN to_dict(record) THEN Some(to_dict(record)[key]) ELSE None

\* C8: for every stored identifier, estimated_delivery_time and tracking_url
\* are absent while no dasher is assigned, appear in the step that assigns the
\* dasher and sets DASHER_ASSIGNED, and are shown unchanged ever after.
C8_EtaAndTrackingSetOnce ==
    [][\A delivery_id \in DOMAIN deliveries :
          LET before == heap[deliveries[delivery_id]]
              after == heap'[deliveries'[delivery_id]]
          IN  /\ before.dasher = None =>
                    /\ Shown(before, "estimated_delivery_time") = None
                    /\ Shown(before, "tracking_url") = None
              /\ (before.dasher = None /\ after.dasher # None) =>
                    /\ after.status = DASHER_ASSIGNED
                    /\ Shown(after, "estimated_delivery_time") # None
                    /\ Shown(after, "tracking_url") # None
              /\ before.dasher # None =>
                    /\ Shown(after, "estimated_delivery_time")
                           = Shown(before, "estimated_delivery_time")
                    /\ Shown(after, "tracking_url") = Shown(before, "tracking_url")
                    /\ Shown(after, "tracking_url") # None]_vars

\* C9: list_active_deliveries returns the stored deliveries that are neither
\* DELIVERED nor CANCELED, all of them and no other, each as to_dict shows
\* it, and count is the number of entries returned.
C9_ListActiveExact ==
    [][list_active_deliveries =>
          /\ \A delivery_id \in DOMAIN deliveries :
                 delivery_id \in DOMAIN ret'.out.deliveries
                     <=> heap[deliveries[delivery_id]].status \notin {DELIVERED, CANCELED}
          /\ DOMAIN ret'.out.deliveries \subseteq DOMAIN deliveries
          /\ \A delivery_id \in DOMAIN ret'.out.deliveries :
                 /\ ret'.out.deliveries[delivery_id].status \notin {DELIVERED, CANCELED}
                 /\ ret'.out.deliveries[delivery_id]
                        = to_dict(heap[deliveries[delivery_id]])
          /\ ret'.out.count = Cardinality(DOMAIN ret'.out.deliveries)
          /\ UNCHANGED <<heap, deliveries, engines>>]_vars

\* C9 witness: a list was just returned that holds one delivery and leaves
\* out a canceled and so inactive one.
C9_Witness ==
    /\ ret.op = "list_active_deliveries"
    /\ ret.out.count = 1
    /\ \E delivery_id \in DOMAIN deliveries :
           /\ heap[deliveries[delivery_id]].status = CANCELED
           /\ delivery_id \notin DOMAIN ret.out.deliveries

\* C10: create_delivery returns a record that is CREATED and shows no dasher,
\* tracking_url or estimated_delivery_time, stores that record under its
\* identifier, adds exactly one task bound to that identifier, which has not
\* run, and touches no other record or task.
C10_CreateStoresAndStartsOne ==
    [][\A external_delivery_id \in ExternalIds, pickup_address \in PickupAddresses,
          dropoff_address \in DropoffAddresses, order_value \in OrderValues :
          create_delivery(external_delivery_id, pickup_address, dropoff_address,
                          order_value)
          => LET id == ret'.out.external_delivery_id
             IN  /\ ret'.out.status = CREATED
                 /\ DOMAIN ret'.out \cap {"dasher", "tracking_url",
                                          "estimated_delivery_time"} = {}
                 /\ external_delivery_id \notin {None, Some("")}
                        => id = external_delivery_id[1]
                 /\ id \in DOMAIN deliveries'
                 /\ to_dict(heap'[deliveries'[id]]) = ret'.out
                 /\ heap'[deliveries'[id]].status = CREATED
                 /\ heap'[deliveries'[id]].dasher = None
                 /\ Len(engines') = Len(engines) + 1
                 /\ engines'[Len(engines')].delivery_id = id
                 /\ engines'[Len(engines')].pc = "start"
                 /\ \A e \in 1..Len(engines) : engines'[e] = engines[e]
                 /\ \A r \in Refs : heap'[r] = heap[r]]_vars

\* C10 witness: a second delivery was just created, with a generated
\* identifier, while the task of the first one is already under way.
C10_Witness ==
    /\ ret.op = "create_delivery"
    /\ ret.arg = None
    /\ Len(engines) = 2
    /\ engines[1].pc = PICKUP_IN_PROGRESS
    /\ engines[2].pc = "start"
    /\ heap[deliveries[ret.out.external_delivery_id]].status = CREATED

EngineRefs == 1..Len(engines)

\* Task e wrote to its record in this step.
Wrote(e) == engines'[e].last # engines[e].last

\* C11: a delivery that is never canceled changes status only to the next
\* status of the chain, every write of its task is such a change (none is
\* repeated), and once it is DELIVERED no task takes a step on it.
C11_UncanceledAdvancesInOrder ==
    [][\A r \in Refs :
          r \notin canceled' =>
              /\ heap'[r].status # heap[r].status =>
                     Rank(heap'[r].status) = Rank(heap[r].status) + 1
              /\ \A e \in EngineRefs :
                     (engines[e].delivery = Some(r) /\ Wrote(e)) =>
                         /\ heap'[r].status # heap[r].status
                         /\ heap[r].status # DELIVERED]_vars

\* C12: get_delivery_status and cancel_delivery on an identifier that is not
\* stored return the "Delivery not found" error as their value and change no
\* record, store entry or task; get_delivery_status on a stored identifier
\* returns the record as it is and changes nothing.
C12_NotFoundAndReadOnly ==
    [][\A delivery_id \in QueryIds :
          /\ ( /\ delivery_id \notin DOMAIN deliveries
               /\ get_delivery_status(delivery_id) \/ cancel_delivery(delivery_id) )
             => /\ IsError(ret'.out)
                /\ ret'.out.error = "Delivery not found"
                /\ ret'.out.delivery_id = delivery_id
                /\ UNCHANGED <<heap, deliveries, engines, dashers>>
          /\ ( /\ delivery_id \in DOMAIN deliveries
               /\ get_delivery_status(delivery_id) )
             => /\ ret'.out = to_dict(heap[deliveries[delivery_id]])
                /\ ret'.out.external_delivery_id = delivery_id
                /\ UNCHANGED <<heap, deliveries, engines, dashers>>]_vars

\* C12 witness: with a delivery stored, a cancel of an unknown identifier has
\* just returned the error.
C12_Witness ==
    /\ ret.op = "cancel_delivery"
    /\ ret.arg = Some("missing")
    /\ IsError(ret.out)
    /\ ret.out.error = "Delivery not found"
    /\ DOMAIN deliveries # {}
    /\ Len(engines) = Len(heap)

\* C13: an identifier create_delivery has stored stays in the store in every
\* later state, and get_delivery_status on it never returns an error.
C13_NeverRemoved ==
    [][/\ DOMAIN deliveries \subseteq DOMAIN deliveries'
       /\ \A delivery_id \in DOMAIN deliveries :
              get_delivery_status(delivery_id) => ~IsError(ret'.out)]_vars

\* C13 witness: two identifiers are stored, one of them DELIVERED and just
\* read, the other CANCELED.
C13_Witness ==
    /\ ret.op = "get_delivery_status"
    /\ ~IsError(ret.out)
    /\ ret.out.status = DELIVERED
    /\ \E delivery_id \in DOMAIN deliveries :
           heap[deliveries[delivery_id]].status = CANCELED

\* The identifiers a call or a task can name, other than FailingId.
OtherIds == (GeneratedIds \cup {x[1] : x \in ExternalIds \ {None}}) \ {FailingId, ""}

\* The step is a create_delivery that stored under A, a cancel_delivery(A), or
\* a step of a task started for A.
OperationOn(A) ==
    \/ /\ CreateDelivery
       /\ ret'.out.external_delivery_id = A
    \/ cancel_delivery(A)
    \/ \E e \in EngineRefs :
          /\ engines[e].delivery_id = A
          /\ simulate_delivery_progress(e, BOOLEAN)

\* C14: a create_delivery, a cancel_delivery or a task step for identifier A
\* leaves the record stored under every other identifier B as it was, and a
\* task of A ended by its notification does not stop the task of B: once B is
\* stored, its record reaches DELIVERED unless a cancel_delivery canceled it.
C14_NoInterference ==
    /\ [][\A A \in QueryIds : \A B \in DOMAIN deliveries \ {A} :
              OperationOn(A) =>
                  /\ deliveries'[B] = deliveries[B]
                  /\ heap'[deliveries[B]] = heap[deliveries[B]]]_vars
    /\ \A B \in OtherIds :
          (B \in DOMAIN deliveries) ~>
              (/\ B \in DOMAIN deliveries
               /\ \/ heap[deliveries[B]].status = DELIVERED
                  \/ deliveries[B] \in canceled)

\* A task of FailingId was ended by its notification, and the record of
\* another identifier, never canceled, is DELIVERED.
C14_Witness ==
    /\ \E e \in EngineRefs :
          engines[e].delivery_id = FailingId /\ engines[e].pc = "failed"
    /\ \E B \in DOMAIN deliveries \ {FailingId} :
          /\ heap[deliveries[B]].status = DELIVERED
          /\ deliveries[B] \notin canceled

\* The statuses from which cancel_delivery refuses because the courier is on
\* the way or has arrived.
TooFarAlong == {ENROUTE_TO_DROPOFF, DELIVERED}

\* C15: no interleaving of cancel_delivery with task steps leaves a record
\* that has already been written ENROUTE_TO_DROPOFF or DELIVERED with the
\* status CANCELED.
C15_NoCancelAfterEnroute ==
    \A r \in Refs :
        (\E e \in EngineRefs :
            /\ engines[e].delivery = Some(r)
            /\ engines[e].last # None
            /\ engines[e].last[1] \in TooFarAlong)
        => heap[r].status # CANCELED

Roster == {SampleDashers[i] : i \in DOMAIN SampleDashers}

\* C16: the courier pool is never empty and never changes once it holds the
\* seeded roster, the courier picked is a member of that roster, and so is
\* every courier attached to a delivery record.
C16_RosterFixed ==
    /\ [](/\ dashers # << >>
          /\ \A i \in DOMAIN dashers : dashers[i] \in Roster
          /\ \A r \in Refs :
                heap[r].dasher # None =>
                    /\ heap[r].dasher[1] \in Roster
                    /\ heap[r].dasher[1].id \in
                           {"D1001", "D1002", "D1003", "D1004", "D1005"})
    /\ [][dashers # << >> => dashers' = dashers]_vars

\* Two records carry couriers picked from the pool, one of them the last of
\* the roster.
C16_Witness ==
    /\ \E r \in Refs : heap[r].dasher # None /\ heap[r].dasher[1].id = "D1005"
    /\ \E r \in Refs : heap[r].dasher # None /\ heap[r].dasher[1].id = "D1001"

\* C17: a notification that raises does not end the task: no task is ever
\* stopped by it before the task has written DELIVERED to its record.
C17_InfoFailureDoesNotAbort ==
    \A e \in EngineRefs :
        engines[e].pc = "failed" => engines[e].last = Some(DELIVERED)

\* C18: at most one task ever writes to a given record, whatever the sequence
\* of create_delivery calls (so no status is written to it twice).
C18_OneWriterPerRecord ==
    \A e1, e2 \in EngineRefs :
        (/\ engines[e1].delivery # None
         /\ engines[e1].delivery = engines[e2].delivery
         /\ engines[e1].last # None
         /\ engines[e2].last # None)
        => e1 = e2

\* C19: once app_lifespan has exited and its cleanup is done, no task writes
\* to any record.
C19_NoWriteAfterShutdown ==
    [][lifespan = "exited" => heap' = heap]_vars

\* C20: a create_delivery call with no identifier, or with the empty string,
\* stores its record under an identifier that was not in the store and leaves
\* every record already stored where and as it was.
C20_GeneratedIdIsFresh ==
    [][\A external_delivery_id \in {None, Some("")} :
          (\E pickup_address \in PickupAddresses,
              dropoff_address \in DropoffAddresses, order_value \in OrderValues :
                create_delivery(external_delivery_id, pickup_address,
                                dropoff_address, order_value))
          => /\ ret'.out.external_delivery_id \notin DOMAIN deliveries
             /\ \A id \in DOMAIN deliveries :
                   /\ deliveries'[id] = deliveries[id]
                   /\ heap'[deliveries[id]] = heap[deliveries[id]]]_vars

\* C21: a task that finds no record under its identifier when it first runs
\* ends there: it creates and writes no record, sends no notification, returns
\* nothing to any caller, leaves every other task as it was, and never runs
\* again.
C21_MissingRecordEndsTask ==
    [][\A e \in EngineRefs :
          /\ (simulate_start(e) /\ Get(engines[e].delivery_id) = None) =>
                 /\ UNCHANGED <<heap, deliveries, dashers, canceled>>
                 /\ engines'[e].pc = "returned"
                 /\ engines'[e].last = None
                 /\ Len(engines') = Len(engines)
                 /\ \A x \in EngineRefs \ {e} : engines'[x] = engines[x]
                 /\ ret' = NoReturn
          /\ engines[e].pc = "returned" =>
                 /\ engines'[e] = engines[e]
                 /\ engines[e].last = None]_vars

\* A task has ended for want of a record, and a task started after it has
\* carried a stored record to DELIVERED.
C21_Witness ==
    \E e, x \in EngineRefs :
        /\ e < x
        /\ engines[e].pc = "returned"
        /\ engines[x].pc = "done"
        /\ heap[engines[x].delivery[1]].status = DELIVERED

\* C22: after a successful registration start_heartbeat_thread starts
\* heartbeat_worker in a daemon thread of its own and returns, so that the
\* main thread goes on to the initial heartbeat and to app.run.
C22_StartHeartbeatThreadReturns ==
    [][start_heartbeat_thread =>
          /\ weather'.heartbeat_worker = "daemon thread"
          /\ weather'.pc = "send_heartbeat"]_vars

====
